---- MODULE Spec2Model ----
(***************************************************************************)
(* Model of epidemiology_models/compartmental_models.py: the forward-Euler *)
(* loop of BaseModel.get_numerical_results and the derivative and R0       *)
(* functions of SIRModel, SEIRModel and SISModel.                          *)
(*                                                                         *)
(* Numbers are binary floating-point values <<m, e>> = m * 2^e with a      *)
(* Precision-bit significand, rounded to nearest, ties to even, after      *)
(* every arithmetic operation, as Python floats are (there with 53 bits).  *)
(* The exponent is unbounded: overflow to inf and gradual underflow are    *)
(* outside the model.  +0.0 and -0.0 are one value (they compare equal).   *)
(* The values of params and initial_conditions are floats, as the          *)
(* docstrings say (dict<str, float>).                                      *)
(*                                                                         *)
(* A call of get_numerical_results is a sequence of steps: its entry, one  *)
(* step per loop iteration, its return.  Calls of several threads          *)
(* interleave at these steps; a call reads and writes only its own locals  *)
(* inside a step, so a finer interleaving shows nothing more.              *)
(***************************************************************************)
EXTENDS Integers, Sequences, FiniteSets, TLC

\* ---------------------------------------------------------------- bounds
Precision == 8
MaxSamples == 4

\* ------------------------------------------------- floating-point numbers
Abs(n) == IF n < 0 THEN -n ELSE n

Sgn(n) == IF n < 0 THEN -1 ELSE IF n = 0 THEN 0 ELSE 1

RECURSIVE BitLen(_)
BitLen(n) == IF n = 0 THEN 0 ELSE 1 + BitLen(n \div 2)

Zero == <<0, 0>>

IsZero(x) == x[1] = 0

\* the float nearest to n * 2^e (round half to even)
Round(n, e) ==
  LET a == Abs(n)
      b == BitLen(a)
  IN IF n = 0 THEN Zero
     ELSE IF b <= Precision
          THEN <<n * 2^(Precision - b), e - (Precision - b)>>
          ELSE LET k == b - Precision
                   q == a \div 2^k
                   r == a % 2^k
                   h == 2^(k - 1)
                   m == IF r > h \/ (r = h /\ q % 2 = 1) THEN q + 1 ELSE q
               IN IF m = 2^Precision
                  THEN <<Sgn(n) * 2^(Precision - 1), e + k + 1>>
                  ELSE <<Sgn(n) * m, e + k>>

fneg(x) == <<-x[1], x[2]>>

fmul(x, y) == Round(x[1] * y[1], x[2] + y[2])

fadd(x, y) ==
  IF IsZero(x) THEN y
  ELSE IF IsZero(y) THEN x
  ELSE LET hi == IF x[2] >= y[2] THEN x ELSE y
           lo == IF x[2] >= y[2] THEN y ELSE x
           d  == hi[2] - lo[2]
       IN IF d >= Precision + 2 THEN hi
          ELSE Round(hi[1] * 2^d + lo[1], lo[2])

fsub(x, y) == fadd(x, fneg(y))

\* x / y for y # 0: Precision+2 quotient bits and a sticky bit, then rounded
fdiv(x, y) ==
  IF IsZero(x) THEN Zero
  ELSE LET num == Abs(x[1]) * 2^(Precision + 2)
           q   == num \div Abs(y[1])
           st  == IF num % Abs(y[1]) = 0 THEN 0 ELSE 1
       IN Round(Sgn(x[1]) * Sgn(y[1]) * (2 * q + st),
                x[2] - y[2] - (Precision + 2) - 1)

\* the float of the literal n * 2^e
F(n, e) == Round(n, e)

\* ----------------------------------------------------------- dictionaries
\* A Python dict<str, float> is a function whose DOMAIN is its key set.
Restrict(f, K) == [k \in K |-> f[k]]

\* outcome of a call: a value, or the exception it raised
Ok(v) == [err |-> "none", val |-> v]

Raise(e) == [err |-> e, val |-> <<>>]

\* One assignment statement of a derivative function: every p[..] and c[..]
\* subscript is evaluated before the division by p['N'], which is the last
\* operation of the right-hand side that can raise.
StmtError(p, c, pkeys, ckeys, divides) ==
  IF ~(pkeys \subseteq DOMAIN p /\ ckeys \subseteq DOMAIN c) THEN "KeyError"
  ELSE IF divides /\ IsZero(p["N"]) THEN "ZeroDivisionError"
  ELSE "none"

\* statements run in order: the first one that raises decides
FirstError(e1, e2) == IF e1 # "none" THEN e1 ELSE e2

\* ------------------------------------------------------------- BaseModel
BaseModel_deriv(p, c) == Raise("NotImplementedError")

BaseModel_get_R0(p) == Raise("NotImplementedError")

\* -------------------------------------------------------------- SIRModel
\* p = p.copy(); p['Lambda'] = p.get('Lambda', 0.0); p['mu'] = p.get('mu', 0.0)
SIRLocalParams(p) ==
  [k \in DOMAIN p \cup {"Lambda", "mu"} |-> IF k \in DOMAIN p THEN p[k] ELSE Zero]

\* mutant: the defaults are written to the caller's dict (no p.copy())
SIRCallerParamsNoCopy(p) == SIRLocalParams(p)

\* the caller's dict after SIRModel._deriv returned or raised: the defaults
\* were written to a copy
SIRCallerParams(p) == p

\* mutant: a sign slip in the closing statement, dI = -dS + dR
SIRModel_derivSignSlip(p0, c) ==
  LET p == SIRLocalParams(p0)
      e == FirstError(StmtError(p, c, {"Lambda", "mu", "beta", "N"}, {"S", "I"}, TRUE),
                      StmtError(p, c, {"gamma", "mu"}, {"I", "R"}, FALSE))
  IN IF e # "none" THEN Raise(e)
     ELSE LET dS == fsub(fmul(fsub(p["Lambda"], p["mu"]), c["S"]),
                         fdiv(fmul(fmul(p["beta"], c["I"]), c["S"]), p["N"]))
              dR == fsub(fmul(p["gamma"], c["I"]), fmul(p["mu"], c["R"]))
              dI == fadd(fneg(dS), dR)
          IN Ok([S |-> dS, R |-> dR, I |-> dI])

\* mutant: I gets its own balance, infections minus recoveries and deaths,
\* so that births and deaths change the total
SIRModel_derivVital(p0, c) ==
  LET p == SIRLocalParams(p0)
      e == FirstError(StmtError(p, c, {"Lambda", "mu", "beta", "N"}, {"S", "I"}, TRUE),
                      StmtError(p, c, {"gamma", "mu"}, {"I", "R"}, FALSE))
  IN IF e # "none" THEN Raise(e)
     ELSE LET inf == fdiv(fmul(fmul(p["beta"], c["I"]), c["S"]), p["N"])
              dS  == fsub(fmul(fsub(p["Lambda"], p["mu"]), c["S"]), inf)
              dR  == fsub(fmul(p["gamma"], c["I"]), fmul(p["mu"], c["R"]))
              dI  == fsub(inf, fmul(fadd(p["gamma"], p["mu"]), c["I"]))
          IN Ok([S |-> dS, R |-> dR, I |-> dI])

SIRModel_deriv(p0, c) ==
  LET p == SIRLocalParams(p0)
      e == FirstError(StmtError(p, c, {"Lambda", "mu", "beta", "N"}, {"S", "I"}, TRUE),
                      StmtError(p, c, {"gamma", "mu"}, {"I", "R"}, FALSE))
  IN IF e # "none" THEN Raise(e)
     ELSE LET dS == fsub(fmul(fsub(p["Lambda"], p["mu"]), c["S"]),
                         fdiv(fmul(fmul(p["beta"], c["I"]), c["S"]), p["N"]))
              dR == fsub(fmul(p["gamma"], c["I"]), fmul(p["mu"], c["R"]))
              dI == fsub(fneg(dS), dR)
          IN Ok([S |-> dS, R |-> dR, I |-> dI])

SIRModel_get_R0(p) ==
  IF ~({"beta", "gamma"} \subseteq DOMAIN p) THEN Raise("KeyError")
  ELSE IF IsZero(p["gamma"]) THEN Raise("ZeroDivisionError")
  ELSE Ok(fdiv(p["beta"], p["gamma"]))

\* ------------------------------------------------------------- SEIRModel
SEIRModel_deriv(p, c) ==
  LET e == FirstError(StmtError(p, c, {"lambda", "mu", "beta", "N"}, {"S", "I"}, TRUE),
           FirstError(StmtError(p, c, {"gamma", "mu"}, {"I", "R"}, FALSE),
                      StmtError(p, c, {"a", "gamma", "mu"}, {"E", "I"}, FALSE)))
  IN IF e # "none" THEN Raise(e)
     ELSE LET dS == fsub(fmul(fsub(p["lambda"], p["mu"]), c["S"]),
                         fdiv(fmul(fmul(p["beta"], c["I"]), c["S"]), p["N"]))
              dR == fsub(fmul(p["gamma"], c["I"]), fmul(p["mu"], c["R"]))
              dI == fsub(fmul(p["a"], c["E"]), fmul(fadd(p["gamma"], p["mu"]), c["I"]))
              dE == fsub(fsub(fneg(dI), dR), dS)
          IN Ok([S |-> dS, R |-> dR, I |-> dI, E |-> dE])

SEIRModel_get_R0(p) ==
  IF ~({"a", "beta", "mu", "gamma"} \subseteq DOMAIN p) THEN Raise("KeyError")
  ELSE LET den == fmul(fadd(p["mu"], p["a"]), fadd(p["mu"], p["gamma"]))
       IN IF IsZero(den) THEN Raise("ZeroDivisionError")
          ELSE Ok(fdiv(fmul(p["a"], p["beta"]), den))

\* -------------------------------------------------------------- SISModel
\* mutant: dI = dS, the minus sign of the second statement lost
SISModel_derivSameSign(p, c) ==
  LET e == StmtError(p, c, {"gamma", "beta", "N"}, {"I", "S"}, TRUE)
  IN IF e # "none" THEN Raise(e)
     ELSE LET dS == fsub(fmul(p["gamma"], c["I"]),
                         fdiv(fmul(fmul(p["beta"], c["I"]), c["S"]), p["N"]))
          IN Ok([S |-> dS, I |-> dS])

SISModel_deriv(p, c) ==
  LET e == StmtError(p, c, {"gamma", "beta", "N"}, {"I", "S"}, TRUE)
  IN IF e # "none" THEN Raise(e)
     ELSE LET dS == fsub(fmul(p["gamma"], c["I"]),
                         fdiv(fmul(fmul(p["beta"], c["I"]), c["S"]), p["N"]))
              dI == fneg(dS)
          IN Ok([S |-> dS, I |-> dI])

SISModel_get_R0(p) == SIRModel_get_R0(p)

\* ------------------------------------------------------ method dispatch
Variants == {"BaseModel", "SIRModel", "SEIRModel", "SISModel"}

Deriv(v, p, c) ==
  CASE v = "SIRModel"  -> SIRModel_deriv(p, c)
    [] v = "SEIRModel" -> SEIRModel_deriv(p, c)
    [] v = "SISModel"  -> SISModel_deriv(p, c)
    [] OTHER           -> BaseModel_deriv(p, c)

get_R0(v, p) ==
  CASE v = "SIRModel"  -> SIRModel_get_R0(p)
    [] v = "SEIRModel" -> SEIRModel_get_R0(p)
    [] v = "SISModel"  -> SISModel_get_R0(p)
    [] OTHER           -> BaseModel_get_R0(p)

\* the dict self._params refers to after self._deriv(self._params, x)
ParamsAfterDeriv(v, p) == IF v = "SIRModel" THEN SIRCallerParams(p) ELSE p

\* ------------------------------------------------- the forward-Euler loop
\* x = {k: (v + deriv[k] * dt_secs) for k, v in x.items()}: every value is
\* read from the dict x had before the statement
EulerUpdate(c, deriv, dt) ==
  IF ~(DOMAIN c \subseteq DOMAIN deriv) THEN Raise("KeyError")
  ELSE Ok([k \in DOMAIN c |-> fadd(c[k], fmul(deriv[k], dt))])

\* mutant: S is updated in place first and the other compartments advance
\* with the derivative at the partially updated state
LoopBodyInPlace(v, p, c, dt) ==
  LET d == Deriv(v, p, c)
  IN IF d.err # "none" THEN d
     ELSE IF ~(DOMAIN c \subseteq DOMAIN d.val) THEN Raise("KeyError")
     ELSE LET c1 == [c EXCEPT !["S"] = fadd(c["S"], fmul(d.val["S"], dt))]
              d1 == Deriv(v, p, c1).val
          IN Ok([k \in DOMAIN c |->
                   IF k = "S" THEN c1[k] ELSE fadd(c[k], fmul(d1[k], dt))])

\* one iteration of the loop: lines 38-39
LoopBody(v, p, c, dt) ==
  LET d == Deriv(v, p, c)
  IN IF d.err # "none" THEN d ELSE EulerUpdate(c, d.val, dt)

\* the whole call run alone, as a function of its arguments and the
\* instance's fields: the list of samples, or the exception
RECURSIVE RunFrom(_, _, _, _, _, _, _)
RunFrom(v, p, c, acc, i, n, dt) ==
  IF i >= n THEN Ok(acc)
  ELSE LET s == LoopBody(v, p, c, dt)
       IN IF s.err # "none" THEN s
          ELSE RunFrom(v, p, s.val, Append(acc, s.val), i + 1, n, dt)

get_numerical_results(v, p, ic, n, dt) == RunFrom(v, p, ic, <<ic>>, 1, n, dt)

\* ------------------------------------------------------ inputs of the model
BetaVals == {F(1, -1), F(3, 0)}

GammaVals == {Zero, F(1, -2)}

NVals == {Zero, F(4, 0), F(5, 0)}

VitalVals == {F(1, -3), F(1, -2)}

DtVals == {Zero, F(1, 0), F(-3, -2)}

SVals == {F(3, 0), F(4, 0)}

AllKeys == {"beta", "gamma", "N", "Lambda", "mu", "lambda", "a", "S", "E", "I", "R"}

\* every dict of Full, and the dicts of Base with one key deleted
WithDrops(Full, Base) ==
  Full \cup {Restrict(f, DOMAIN f \ {k}) : f \in Base, k \in AllKeys}

ParamDicts(v) ==
  CASE v = "SIRModel" ->
         WithDrops([beta : BetaVals, gamma : GammaVals, N : NVals,
                    Lambda : VitalVals, mu : VitalVals]
                   \cup [beta : BetaVals, gamma : GammaVals, N : NVals]
                   \cup [beta : BetaVals, gamma : GammaVals, N : NVals,
                         Lambda : {Zero}, mu : {Zero}]
                   \cup [beta : BetaVals, gamma : GammaVals, N : NVals, mu : VitalVals],
                   [beta : {F(3, 0)}, gamma : {F(1, -2)}, N : {Zero, F(4, 0)}])
    [] v = "SEIRModel" ->
         WithDrops([beta : BetaVals, gamma : GammaVals, N : NVals,
                    mu : {Zero, F(1, -3)}, lambda : {Zero, F(1, -2)}, a : {F(1, -1)}],
                   [beta : {F(3, 0)}, gamma : {F(1, -2)}, N : {Zero, F(4, 0)},
                    mu : {Zero}, lambda : {Zero}, a : {F(1, -1)}])
    [] v = "SISModel" ->
         WithDrops([beta : BetaVals, gamma : GammaVals, N : NVals],
                   [beta : {F(3, 0)}, gamma : {F(1, -2)}, N : {Zero, F(4, 0)}])
    [] OTHER -> {<<>>, [beta |-> F(3, 0), gamma |-> F(1, -2), N |-> F(4, 0)]}

StateDicts(v) ==
  CASE v = "SIRModel" ->
         WithDrops([S : SVals, I : {F(1, 0)}, R : {F(1, 0)}],
                   [S : {F(3, 0)}, I : {F(1, 0)}, R : {Zero}])
    [] v = "SEIRModel" ->
         WithDrops([S : SVals, E : {F(1, 0)}, I : {F(1, 0)}, R : {Zero}],
                   [S : {F(3, 0)}, E : {Zero}, I : {F(1, 0)}, R : {Zero}])
    [] v = "SISModel" ->
         WithDrops([S : SVals, I : {F(1, 0)}]
                   \cup [S : SVals, I : {F(1, 0)}, R : {F(1, 0)}],
                   [S : {F(3, 0)}, I : {F(1, 0)}])
    [] OTHER -> {<<>>, [S |-> F(3, 0), I |-> F(1, 0)]}

\* the instances two threads share in SpecConc
ConcParamDicts(v) ==
  CASE v = "SIRModel" ->
         [beta : {F(3, 0)}, gamma : {F(1, -2)}, N : {F(5, 0)}]
         \cup [beta : {F(3, 0)}, gamma : {F(1, -2)}, N : {F(4, 0)},
               Lambda : {F(1, -2)}, mu : {F(1, -3)}]
    [] v = "SEIRModel" ->
         [beta : {F(3, 0)}, gamma : {F(1, -2)}, N : {F(5, 0)},
          mu : {F(1, -3)}, lambda : {F(1, -2)}, a : {F(1, -1)}]
    [] v = "SISModel" ->
         [beta : {F(3, 0)}, gamma : {F(1, -2)}, N : {F(5, 0)}]
         \cup {[beta |-> F(3, 0), N |-> F(5, 0)]}
    [] OTHER -> {}

ConcStateDicts(v) ==
  CASE v = "SIRModel"  -> {[S |-> F(4, 0), I |-> F(1, 0), R |-> Zero]}
    [] v = "SEIRModel" -> {[S |-> F(4, 0), E |-> F(1, 0), I |-> F(1, 0), R |-> Zero]}
    [] v = "SISModel"  -> {[S |-> F(4, 0), I |-> F(1, 0)],
                           [S |-> F(4, 0), I |-> F(1, 0), R |-> Zero]}
    [] OTHER -> {}

\* -------------------------------------------------------------- the state
Threads == {1, 2}

VARIABLES
  variant,             \* the class of the instance
  params,              \* self._params
  initial_conditions,  \* self._initial_conditions
  threads,             \* the threads that call methods of the instance
  pc,                  \* per thread: "idle", "loop", "returned" or "raised"
  n_sample,            \* per thread: argument of the call in progress
  dt_secs,             \* per thread: argument of the call in progress
  i_sample,            \* per thread: next value of range(1, n_sample)
  x,                   \* per accumulator: the local x of a call
  result_list,         \* per thread: the local result_list of a call
  df,                  \* per thread: rows of the frame the last call returned
  error,               \* per thread: exception the last call raised
  deriv_calls,         \* per thread: self._deriv calls made by the last call
  R0                   \* outcome of the last get_R0 call

vars == <<variant, params, initial_conditions, threads, pc, n_sample, dt_secs,
          i_sample, x, result_list, df, error, deriv_calls, R0>>

\* mutant: the accumulator is kept on the instance, one for all calls
XSlotShared(t) == 1

\* x is a local variable of get_numerical_results: one per call in progress
XSlot(t) == t

NoCall == [t \in Threads |-> <<>>]

InitFrames ==
  /\ pc = [t \in Threads |-> "idle"]
  /\ n_sample = [t \in Threads |-> 0]
  /\ dt_secs = [t \in Threads |-> Zero]
  /\ i_sample = [t \in Threads |-> 0]
  /\ x = NoCall
  /\ result_list = NoCall
  /\ df = NoCall
  /\ error = [t \in Threads |-> "none"]
  /\ deriv_calls = [t \in Threads |-> 0]
  /\ R0 = Raise("not called")

\* BaseModel.__init__, lines 16-17; one thread uses the instance
Init ==
  /\ variant \in Variants
  /\ params \in ParamDicts(variant)
  /\ initial_conditions \in StateDicts(variant)
  /\ threads = {1}
  /\ InitFrames

\* two threads use one instance
InitConc ==
  /\ variant \in Variants \ {"BaseModel"}
  /\ params \in ConcParamDicts(variant)
  /\ initial_conditions \in ConcStateDicts(variant)
  /\ threads = Threads
  /\ InitFrames

\* mutant: the initial sample is not appended (line 36 missing)
CallSkipsInitial(t, n, dt) ==
  /\ t \in threads
  /\ pc[t] # "loop"
  /\ pc' = [pc EXCEPT ![t] = "loop"]
  /\ n_sample' = [n_sample EXCEPT ![t] = n]
  /\ dt_secs' = [dt_secs EXCEPT ![t] = dt]
  /\ i_sample' = [i_sample EXCEPT ![t] = 1]
  /\ x' = [x EXCEPT ![XSlot(t)] = initial_conditions]
  /\ result_list' = [result_list EXCEPT ![t] = <<>>]
  /\ df' = [df EXCEPT ![t] = <<>>]
  /\ error' = [error EXCEPT ![t] = "none"]
  /\ deriv_calls' = [deriv_calls EXCEPT ![t] = 0]
  /\ UNCHANGED <<variant, params, initial_conditions, threads, R0>>

\* lines 34-36
Call(t, n, dt) ==
  /\ t \in threads
  /\ pc[t] # "loop"
  /\ pc' = [pc EXCEPT ![t] = "loop"]
  /\ n_sample' = [n_sample EXCEPT ![t] = n]
  /\ dt_secs' = [dt_secs EXCEPT ![t] = dt]
  /\ i_sample' = [i_sample EXCEPT ![t] = 1]
  /\ x' = [x EXCEPT ![XSlot(t)] = initial_conditions]
  /\ result_list' = [result_list EXCEPT ![t] = <<x'[XSlot(t)]>>]
  /\ df' = [df EXCEPT ![t] = <<>>]
  /\ error' = [error EXCEPT ![t] = "none"]
  /\ deriv_calls' = [deriv_calls EXCEPT ![t] = 0]
  /\ UNCHANGED <<variant, params, initial_conditions, threads, R0>>

\* mutant: an exception of the loop body is swallowed and the samples
\* collected so far are returned
StepReturnsPartial(t) ==
  /\ t \in threads
  /\ pc[t] = "loop"
  /\ i_sample[t] < n_sample[t]
  /\ LET s == LoopBody(variant, params, x[XSlot(t)], dt_secs[t])
     IN /\ params' = ParamsAfterDeriv(variant, params)
        /\ deriv_calls' = [deriv_calls EXCEPT ![t] = @ + 1]
        /\ IF s.err # "none"
           THEN /\ pc' = [pc EXCEPT ![t] = "returned"]
                /\ df' = [df EXCEPT ![t] = result_list[t]]
                /\ x' = [x EXCEPT ![XSlot(t)] = <<>>]
                /\ result_list' = [result_list EXCEPT ![t] = <<>>]
                /\ UNCHANGED <<i_sample, error>>
           ELSE /\ x' = [x EXCEPT ![XSlot(t)] = s.val]
                /\ result_list' = [result_list EXCEPT ![t] = Append(@, x'[XSlot(t)])]
                /\ i_sample' = [i_sample EXCEPT ![t] = @ + 1]
                /\ UNCHANGED <<pc, error, df>>
  /\ UNCHANGED <<variant, initial_conditions, threads, n_sample, dt_secs, R0>>

\* lines 37-40: one iteration, or the exception that ends the call
Step(t) ==
  /\ t \in threads
  /\ pc[t] = "loop"
  /\ i_sample[t] < n_sample[t]
  /\ LET s == LoopBody(variant, params, x[XSlot(t)], dt_secs[t])
     IN /\ params' = ParamsAfterDeriv(variant, params)
        /\ deriv_calls' = [deriv_calls EXCEPT ![t] = @ + 1]
        /\ IF s.err # "none"
           THEN /\ pc' = [pc EXCEPT ![t] = "raised"]
                /\ error' = [error EXCEPT ![t] = s.err]
                /\ x' = [x EXCEPT ![XSlot(t)] = <<>>]
                /\ result_list' = [result_list EXCEPT ![t] = <<>>]
                /\ UNCHANGED i_sample
           ELSE /\ x' = [x EXCEPT ![XSlot(t)] = s.val]
                /\ result_list' = [result_list EXCEPT ![t] = Append(@, x'[XSlot(t)])]
                /\ i_sample' = [i_sample EXCEPT ![t] = @ + 1]
                /\ UNCHANGED <<pc, error>>
  /\ UNCHANGED <<variant, initial_conditions, threads, n_sample, dt_secs, df, R0>>

\* lines 41-47: the loop is over, the samples become the rows of the frame
\* (the timestamp column added to them is not modelled)
Return(t) ==
  /\ t \in threads
  /\ pc[t] = "loop"
  /\ i_sample[t] >= n_sample[t]
  /\ df' = [df EXCEPT ![t] = result_list[t]]
  /\ pc' = [pc EXCEPT ![t] = "returned"]
  /\ x' = [x EXCEPT ![XSlot(t)] = <<>>]
  /\ result_list' = [result_list EXCEPT ![t] = <<>>]
  /\ UNCHANGED <<variant, params, initial_conditions, threads, n_sample, dt_secs,
                 i_sample, error, deriv_calls, R0>>

GetR0 ==
  /\ R0' = get_R0(variant, params)
  /\ UNCHANGED <<variant, params, initial_conditions, threads, pc, n_sample,
                 dt_secs, i_sample, x, result_list, df, error, deriv_calls>>

Next ==
  \/ \E t \in Threads, n \in 1..MaxSamples, dt \in DtVals : Call(t, n, dt)
  \/ \E t \in Threads : Step(t)
  \/ \E t \in Threads : Return(t)
  \/ GetR0

Spec == Init /\ [][Next]_vars

SpecConc == InitConc /\ [][Next]_vars

\* =================================================================== claims
TheVariants == {"SIRModel", "SEIRModel", "SISModel"}

\* the keys the derivative function of a variant subscripts
RequiredParams(v) ==
  CASE v = "SIRModel"  -> {"beta", "gamma", "N"}
    [] v = "SEIRModel" -> {"beta", "gamma", "N", "mu", "lambda", "a"}
    [] v = "SISModel"  -> {"beta", "gamma", "N"}
    [] OTHER           -> {}

Compartments(v) ==
  CASE v = "SIRModel"  -> {"S", "I", "R"}
    [] v = "SEIRModel" -> {"S", "E", "I", "R"}
    [] v = "SISModel"  -> {"S", "I"}
    [] OTHER           -> {}

KeysPresent ==
  /\ RequiredParams(variant) \subseteq DOMAIN params
  /\ Compartments(variant) \subseteq DOMAIN initial_conditions

Finished(t) == pc[t] \in {"returned", "raised"}

\* -------- exact arithmetic on float values, in units of 2^e0
MinExp(V) ==
  LET E == {v[2] : v \in {w \in V : ~IsZero(w)}}
  IN IF E = {} THEN 0 ELSE CHOOSE e \in E : \A e2 \in E : e <= e2

Scaled(v, e0) == IF IsZero(v) THEN 0 ELSE v[1] * 2^(v[2] - e0)

Values(d) == {d[k] : k \in DOMAIN d}

RECURSIVE SumOver(_, _, _)
SumOver(d, K, e0) ==
  IF K = {} THEN 0
  ELSE LET k == CHOOSE j \in K : TRUE
       IN Scaled(d[k], e0) + SumOver(d, K \ {k}, e0)

RECURSIVE AbsSumOver(_, _, _)
AbsSumOver(d, K, e0) ==
  IF K = {} THEN 0
  ELSE LET k == CHOOSE j \in K : TRUE
       IN Abs(Scaled(d[k], e0)) + AbsSumOver(d, K \ {k}, e0)

\* the exact sum of the values of a dict, and of their absolute values
Total(d, e0) == SumOver(d, DOMAIN d, e0)

AbsTotal(d, e0) == AbsSumOver(d, DOMAIN d, e0)

\* 1 / sys.float_info.epsilon of the format
EpsInv == 2^(Precision - 1)

\* the derivative the loop would compute next in thread t
NextDeriv(t) == Deriv(variant, params, x[XSlot(t)])

\* C1 (as stated, read with N nonzero): for SIR, SEIR and SIS with all
\* required keys present, a get_numerical_results call with n_sample >= 1
\* returns a trajectory of exactly n_sample entries.
C1_TrajectoryLength ==
  \A t \in threads :
    (variant \in TheVariants /\ KeysPresent /\ ~IsZero(params["N"]) /\ Finished(t))
      => (pc[t] = "returned" /\ Len(df[t]) = n_sample[t])

\* C2: entry 0 of a returned trajectory equals the stored initial condition,
\* key for key and value for value.
C2_InitialSample ==
  \A t \in threads :
    pc[t] = "returned" => (Len(df[t]) >= 1 /\ df[t][1] = initial_conditions)

\* a call returned at least two samples and integration moved the state
C2_Witness ==
  \E t \in threads :
    /\ pc[t] = "returned"
    /\ Len(df[t]) >= 2
    /\ df[t][2] # df[t][1]
    /\ df[t][1] = initial_conditions

\* C3: sample i is sample i-1 plus deriv * dt_secs in every compartment, deriv
\* being the derivative at sample i-1, evaluated once per sample; all
\* compartments advance from the same previous state.
C3_EulerStep ==
  \A t \in threads :
    pc[t] = "returned" =>
      /\ deriv_calls[t] = Len(df[t]) - 1
      /\ \A i \in 2..Len(df[t]) :
           LET prev == df[t][i - 1]
               d    == Deriv(variant, params, prev)
           IN /\ d.err = "none"
              /\ DOMAIN prev \subseteq DOMAIN d.val
              /\ DOMAIN df[t][i] = DOMAIN prev
              /\ \A k \in DOMAIN prev :
                   df[t][i][k] = fadd(prev[k], fmul(d.val[k], dt_secs[t]))

\* three samples were returned and the last step moved both S and I
C3_Witness ==
  \E t \in threads :
    /\ pc[t] = "returned"
    /\ Len(df[t]) = 3
    /\ ~IsZero(dt_secs[t])
    /\ df[t][3]["S"] # df[t][2]["S"]
    /\ df[t][3]["I"] # df[t][2]["I"]
    /\ df[t][2]["S"] # df[t][1]["S"]

\* C4: no step of get_numerical_results or get_R0 changes the stored
\* parameters or the stored initial condition (keys and values).
C4_StoredUnchanged ==
  [][params' = params /\ initial_conditions' = initial_conditions]_vars

\* an SIR instance without Lambda and mu ran the derivative and get_R0
C4_Witness ==
  /\ variant = "SIRModel"
  /\ DOMAIN params = {"beta", "gamma", "N"}
  /\ pc[1] = "returned"
  /\ Len(df[1]) >= 2
  /\ R0.err = "none"

\* C5: whatever the interleaving of two calls on one instance, each call
\* yields what it yields run alone on (n_sample, dt_secs, stored parameters,
\* stored initial condition): the same trajectory or the same exception, and
\* the same samples so far while it is in its loop.
C5_AsRunAlone ==
  \A t \in threads :
    /\ pc[t] = "returned" =>
         LET alone == get_numerical_results(variant, params, initial_conditions,
                                            n_sample[t], dt_secs[t])
         IN alone.err = "none" /\ df[t] = alone.val
    /\ pc[t] = "raised" =>
         error[t] = get_numerical_results(variant, params, initial_conditions,
                                          n_sample[t], dt_secs[t]).err
    /\ pc[t] = "loop" =>
         LET sofar == get_numerical_results(variant, params, initial_conditions,
                                            i_sample[t], dt_secs[t])
         IN sofar.err = "none" /\ result_list[t] = sofar.val

\* two calls with different steps are both inside their loops
C5_Witness ==
  /\ pc[1] = "loop" /\ pc[2] = "loop"
  /\ i_sample[1] >= 2 /\ i_sample[2] >= 2
  /\ dt_secs[1] # dt_secs[2]
  /\ x[XSlot(1)] # x[XSlot(2)]

\* the cases C6 is about: SEIR, SIS, and SIR with Lambda = mu = 0
C6_Covered ==
  \/ variant \in {"SEIRModel", "SISModel"}
  \/ /\ variant = "SIRModel"
     /\ IsZero(SIRLocalParams(params)["Lambda"])
     /\ IsZero(SIRLocalParams(params)["mu"])

\* C6 (as stated): the derivatives of all compartments sum to exactly 0.
C6_DerivSumZero ==
  \A t \in threads :
    (pc[t] = "loop" /\ C6_Covered /\ NextDeriv(t).err = "none") =>
      LET d == NextDeriv(t).val
      IN Total(d, MinExp(Values(d))) = 0

\* C6 (amended): the derivatives sum to 0 up to the rounding of the closing
\* subtractions: |sum| <= eps * (sum of the absolute derivatives), and to
\* exactly 0 for SIS.
C6_DerivSumRounded ==
  \A t \in threads :
    (pc[t] = "loop" /\ C6_Covered /\ NextDeriv(t).err = "none") =>
      LET d  == NextDeriv(t).val
          e0 == MinExp(Values(d))
      IN /\ Abs(Total(d, e0)) * EpsInv <= AbsTotal(d, e0)
         /\ variant = "SISModel" => Total(d, e0) = 0

\* a derivative of a covered variant whose exact sum is not 0
C6_Witness ==
  \E t \in threads :
    /\ pc[t] = "loop" /\ C6_Covered /\ NextDeriv(t).err = "none"
    /\ Total(NextDeriv(t).val, MinExp(Values(NextDeriv(t).val))) # 0

\* the cases C7 is about: SIS, initial S + I = N exactly
C7_Covered ==
  /\ variant = "SISModel"
  /\ {"S", "I"} \subseteq DOMAIN initial_conditions
  /\ "N" \in DOMAIN params
  /\ LET ic == Restrict(initial_conditions, {"S", "I"})
         e0 == MinExp(Values(ic) \cup {params["N"]})
     IN Total(ic, e0) = Scaled(params["N"], e0)

\* S + I of sample i of thread t's trajectory, minus N, in units of 2^e0
C7_Excess(t, i) ==
  LET r  == Restrict(df[t][i], {"S", "I"})
      e0 == MinExp(Values(r) \cup {params["N"]})
  IN Total(r, e0) - Scaled(params["N"], e0)

\* C7 (as stated): every sample of the trajectory has S + I = N.
C7_SISTotalExact ==
  \A t \in threads :
    (C7_Covered /\ pc[t] = "returned") =>
      \A i \in 1..Len(df[t]) : C7_Excess(t, i) = 0

\* C7 (amended): sample 0 has S + I = N and every Euler step changes S + I
\* by at most the rounding of the two updated values,
\* |(S[i] + I[i]) - (S[i-1] + I[i-1])| <= (eps / 2) * (|S[i]| + |I[i]|).
C7_SISTotalRounded ==
  \A t \in threads :
    (C7_Covered /\ pc[t] = "returned") =>
      /\ C7_Excess(t, 1) = 0
      /\ \A i \in 2..Len(df[t]) :
           LET prev == Restrict(df[t][i - 1], {"S", "I"})
               next == Restrict(df[t][i], {"S", "I"})
               e0   == MinExp(Values(prev) \cup Values(next))
           IN Abs(Total(next, e0) - Total(prev, e0)) * 2 * EpsInv
                <= AbsTotal(next, e0)

\* an SIS trajectory that started at S + I = N and left it by rounding
C7_Witness ==
  \E t \in threads :
    /\ C7_Covered /\ pc[t] = "returned" /\ Len(df[t]) >= 2
    /\ C7_Excess(t, 1) = 0
    /\ C7_Excess(t, 2) # 0

\* the keys a derivative function subscripts before it divides by p['N']
KeysBeforeDivision(v) ==
  CASE v = "SIRModel"  -> {"beta", "N", "S", "I"}
    [] v = "SEIRModel" -> {"lambda", "mu", "beta", "N", "S", "I"}
    [] v = "SISModel"  -> {"gamma", "beta", "N", "I", "S"}
    [] OTHER           -> {}

C8_AllOrNothing ==
  \A t \in threads :
    /\ pc[t] = "returned" => Len(df[t]) = n_sample[t]
    /\ pc[t] = "raised" => df[t] = <<>>
    /\ pc[t] = "loop" => df[t] = <<>>

C8_Case(t) ==
  variant \in TheVariants /\ ~KeysPresent /\ Finished(t) /\ n_sample[t] >= 2

\* C8 (as stated): with a required key absent, a call with n_sample >= 2
\* fails with the missing-key error and returns nothing; every call returns
\* all n_sample samples or nothing.
C8_MissingKeyError ==
  /\ C8_AllOrNothing
  /\ \A t \in threads :
       C8_Case(t) => (pc[t] = "raised" /\ error[t] = "KeyError")

\* C8 (amended): such a call fails and returns nothing; the error is the
\* missing-key error, except that it is ZeroDivisionError when N is zero and
\* every key the derivative reads before dividing by N is present.
C8_MissingKeyFails ==
  /\ C8_AllOrNothing
  /\ \A t \in threads :
       C8_Case(t) =>
         /\ pc[t] = "raised"
         /\ error[t] =
              IF /\ KeysBeforeDivision(variant)
                      \subseteq (DOMAIN params \cup DOMAIN initial_conditions)
                 /\ IsZero(params["N"])
              THEN "ZeroDivisionError" ELSE "KeyError"

\* a call for three samples on an instance lacking a required key has failed
C8_Witness ==
  \E t \in threads :
    /\ C8_Case(t) /\ n_sample[t] = 3
    /\ pc[t] = "raised" /\ error[t] = "KeyError" /\ df[t] = <<>>

Lambda_ne_mu ==
  SIRLocalParams(params)["Lambda"] # SIRLocalParams(params)["mu"]

\* the cases C9 is about: SIR, Lambda # mu, S nonzero, a run that integrates
C9_Case(t) ==
  /\ variant = "SIRModel"
  /\ Lambda_ne_mu
  /\ pc[t] = "returned"
  /\ Len(df[t]) >= 2
  /\ ~IsZero(dt_secs[t])
  /\ ~IsZero(df[t][1]["S"])

\* the exact S + I + R of sample i minus that of sample j, in units of 2^e0
C9_TotalChange(t, i, j) ==
  LET e0 == MinExp(Values(df[t][i]) \cup Values(df[t][j]))
  IN Total(df[t][i], e0) - Total(df[t][j], e0)

\* C9 (as stated): with Lambda # mu the total S + I + R of some sample
\* i >= 1 differs from the total of sample 0.
C9_SIRNotConserved ==
  \A t \in threads :
    C9_Case(t) => \E i \in 2..Len(df[t]) : C9_TotalChange(t, i, 1) # 0

\* C9 (amended): for SIR with any Lambda and mu, Lambda # mu included, the
\* total S + I + R is conserved up to rounding, since dI = -dS - dR: every
\* Euler step changes it by at most
\* 2 * eps * (sum of |S|, |I|, |R| before and after the step).
C9_SIRConserved ==
  \A t \in threads :
    (variant = "SIRModel" /\ pc[t] = "returned") =>
      \A i \in 2..Len(df[t]) :
        LET e0 == MinExp(Values(df[t][i]) \cup Values(df[t][i - 1]))
        IN Abs(C9_TotalChange(t, i, i - 1)) * EpsInv
             <= 2 * (AbsTotal(df[t][i], e0) + AbsTotal(df[t][i - 1], e0))

\* an SIR run with Lambda # mu whose births and deaths moved S, R and I
C9_Witness ==
  \E t \in threads :
    /\ C9_Case(t)
    /\ Len(df[t]) = 3
    /\ \A k \in {"S", "I", "R"} : df[t][3][k] # df[t][1][k]
    /\ C9_TotalChange(t, 3, 1) = 0

\* C10 (as stated): an SIS instance whose initial condition has the keys S,
\* I and R runs to completion for every n_sample >= 1, and R keeps its
\* initial value in every sample.
C10_SISInertR ==
  \A t \in threads :
    ( /\ variant = "SISModel"
      /\ DOMAIN initial_conditions = {"S", "I", "R"}
      /\ RequiredParams(variant) \subseteq DOMAIN params
      /\ ~IsZero(params["N"])
      /\ Finished(t) ) =>
       /\ pc[t] = "returned"
       /\ Len(df[t]) = n_sample[t]
       /\ \A i \in 1..Len(df[t]) : df[t][i]["R"] = initial_conditions["R"]

====
